---- MODULE Spec2Model ----
(***************************************************************************)
(* Dislikes resource of software-engineering-node.                         *)
(*                                                                         *)
(* DislikeController serves four endpoints on top of DislikeDao (the       *)
(* "dislikes" collection) and TuitDao (the tuits and their stats).  Each   *)
(* HTTP request is a process; a handler runs atomically between two        *)
(* awaits, so every store call of a handler is one step and the steps of   *)
(* different requests interleave freely.                                   *)
(***************************************************************************)
EXTENDS Integers, Sequences, FiniteSets, TLC

(* ---------------- bounds ---------------- *)
\* total number of requests issued in one behaviour, of any kind
MaxIssued == 3
\* total number of requests issued in one behaviour of toggles alone
MaxToggles == 4
\* total number of store calls that are rejected in one behaviour
MaxRejected == 1

(* ---------------- HTTP status codes ---------------- *)
OK == 200
FORBIDDEN == 403
NOT_FOUND == 404
\* no response was sent (the promise of the handler was rejected, unhandled)
NO_RESPONSE == 0

(* ---------------- identities ---------------- *)
\* the requests in flight at once: two, the number a race takes
Procs == {1, 2}
Users == {"A", "B"}
ME == "me"
NoProfile == "none"
\* the requests that are issued: the uid of the path and the profile of the
\* session; a session is only read when the uid is "me"
Callers == {<<"B", NoProfile>>, <<ME, NoProfile>>, <<ME, "A">>}
ExistingTuits == {"T1"}
\* a well-formed tuit id that resolves to no tuit
MissingTid == "X"
Tids == ExistingTuits \cup {MissingTid}
\* a document of the dislikes collection is {tuit, dislikedBy}
EdgeKeys == Tids \X Users

VARIABLES
    dislikes,   \* the dislikes collection: number of documents per {tuit, dislikedBy}
    tuits,      \* the tuits collection: stats of every existing tuit
    pc,         \* position of each request's handler
    req,        \* req.params and req.session of each request
    alreadyDisliked,      \* local userAlreadyDislikedTuit of the toggle handler
    howManyDislikedTuit,  \* local howManyDislikedTuit of the toggle handler
    tuit,       \* local tuit of the toggle handler
    res,        \* the response: status and JSON body
    log,        \* history: the store calls the request has made, in order
    clean,      \* history: no other toggle has been in flight since this one started
    pre,        \* history: own edge and edge count of the item when the request started
    chain,      \* history: state before the previous toggle of the same pair, if back to back
    racedWith,  \* history: toggles of the same pair that read the same presence before either wrote
    attempt,    \* history: state before the first of the failed toggles this one repeats
    issued,     \* history: number of requests issued so far
    rejected    \* history: number of store calls rejected so far

vars == <<dislikes, tuits, pc, req, alreadyDisliked, howManyDislikedTuit, tuit,
          res, log, clean, pre, chain, racedWith, attempt, issued, rejected>>

locals == <<alreadyDisliked, howManyDislikedTuit, tuit>>
history == <<clean, pre, chain, racedWith, attempt>>

(* ---------------- values ---------------- *)
RECURSIVE SumOver(_, _)
SumOver(f, S) == IF S = {} THEN 0
                 ELSE LET x == CHOOSE y \in S : TRUE
                      IN f[x] + SumOver(f, S \ {x})

EmptyBag == [k \in EdgeKeys |-> 0]
NoReq == [op |-> "toggle", uid |-> "A", tid |-> "T1", profile |-> NoProfile]
NoTuit == [found |-> FALSE, stats |-> [likes |-> 0, dislikes |-> 0]]
NoRes == [status |-> NO_RESPONSE, body |-> EmptyBag]
NoPre == [present |-> FALSE, count |-> 0, drifted |-> FALSE]
NoChain == [valid |-> FALSE, present |-> FALSE, count |-> 0]

\* a lookup that would match on the tuit alone
findAnyDislikeOfTuit(d, uid, tid) == \E u \in Users : d[<<tid, u>>] > 0

(* ---------------- DislikeDao ---------------- *)
\* DislikeModel.findOne({tuit: tid, dislikedBy: uid}): a document or null
findUserDislikesTuit(d, uid, tid) == d[<<tid, uid>>] > 0

\* DislikeModel.count({tuit: tid})
countHowManyDislikedTuit(d, tid) == SumOver([u \in Users |-> d[<<tid, u>>]], Users)

\* DislikeModel.create({tuit: tid, dislikedBy: uid}); the schema declares no
\* unique index, so the insert succeeds whatever the collection holds
userDislikesTuit(d, uid, tid) == [d EXCEPT ![<<tid, uid>>] = @ + 1]

\* a delete that would match on the user alone (deleteMany({dislikedBy: uid}))
userUnDislikesEveryTuit(d, uid, tid) ==
    [k \in EdgeKeys |-> IF k[2] = uid THEN 0 ELSE d[k]]

\* DislikeModel.deleteOne({tuit: tid, dislikedBy: uid}): removes one matching
\* document; with none matching it resolves with deletedCount 0
userUnDislikesTuit(d, uid, tid) ==
    IF d[<<tid, uid>>] > 0 THEN [d EXCEPT ![<<tid, uid>>] = @ - 1] ELSE d

\* DislikeModel.find({tuit: tid}).populate("dislikedBy")
findAllUsersThatDislikedTuit(d, tid) ==
    [k \in EdgeKeys |-> IF k[1] = tid THEN d[k] ELSE 0]

\* DislikeModel.find({dislikedBy: uid}).populate("tuit")
findAllTuitsDislikedByUser(d, uid) ==
    [k \in EdgeKeys |-> IF k[2] = uid THEN d[k] ELSE 0]

(* ---------------- TuitDao ---------------- *)
\* the tuit of that id, or null
findTuitById(ts, tid) ==
    IF tid \in ExistingTuits THEN [found |-> TRUE, stats |-> ts[tid]] ELSE NoTuit

\* sets the stats of the tuit of that id
updateDislikes(ts, tid, newStats) ==
    IF tid \in ExistingTuits THEN [ts EXCEPT ![tid] = newStats] ELSE ts

(* ---------------- DislikeController helpers ---------------- *)
\* the session test inverted: "me" is turned away when a profile is there
UnauthenticatedInverted(r) == r.uid = ME /\ r.profile # NoProfile

\* uid === "me" && !profile
Unauthenticated(r) == r.uid = ME /\ r.profile = NoProfile

\* const userId = uid === "me" && profile ? profile._id : uid
UserId(r) == IF r.uid = ME /\ r.profile # NoProfile THEN r.profile ELSE r.uid

\* the increment pasted into both branches
NewDislikesNoDecrement(already, howMany) == howMany + 1

\* tuit.stats.dislikes = howManyDislikedTuit - 1 | howManyDislikedTuit + 1
NewDislikes(already, howMany) == IF already THEN howMany - 1 ELSE howMany + 1

\* a listing that would map every dislike to its tuit without the filter
AllPopulatedTuits(found) == found

\* dislikes.filter(dislike => dislike.tuit): populate leaves null for a tuit
\* that no longer exists
NonNullTuits(found) ==
    [k \in EdgeKeys |-> IF k[1] \in ExistingTuits THEN found[k] ELSE 0]

\* a unique index declared on the tuit path alone
DuplicateKeyOnTuit(d, uid, tid) == countHowManyDislikedTuit(d, tid) > 0

\* DislikeSchema declares no index: an insert is never rejected as a duplicate
DuplicateKey(d, uid, tid) == FALSE

\* a query on an ObjectId path given a string that is no ObjectId is rejected
CastError(uid) == uid \notin Users

\* the outcomes a store call can have: it resolves, or it is rejected (the
\* connection is lost, the operation times out); must: it can only be rejected
Outcomes(must) == {b \in BOOLEAN : (b => ~must) /\ (~b => (must \/ rejected < MaxRejected))}

\* the call is logged; a rejection the store was bound to make (must) is no
\* failure of the store and is not counted
Logged(p, call, ok, must) ==
    /\ log' = [log EXCEPT ![p] = Append(@, [call |-> call, ok |-> ok])]
    /\ rejected' = IF ok \/ must THEN rejected ELSE rejected + 1

InFlightToggle(q) == req[q].op = "toggle" /\ pc[q] \notin {"idle", "done"}

\* a new request is given the first slot that holds no request in flight
Free(p) ==
    /\ pc[p] \in {"idle", "done"}
    /\ \A q \in Procs : q < p => pc[q] \notin {"idle", "done"}

\* the response is sent and the handler returns: its locals are gone
Respond(p, st, b) ==
    /\ res' = [res EXCEPT ![p] = [status |-> st, body |-> b]]
    /\ pc' = [pc EXCEPT ![p] = "done"]
    /\ alreadyDisliked' = [alreadyDisliked EXCEPT ![p] = FALSE]
    /\ howManyDislikedTuit' = [howManyDislikedTuit EXCEPT ![p] = 0]
    /\ tuit' = [tuit EXCEPT ![p] = NoTuit]

(* ---------------- Init ---------------- *)
Init ==
    /\ dislikes = EmptyBag
    /\ tuits = [t \in ExistingTuits |-> [likes |-> 1, dislikes |-> 0]]
    /\ pc = [p \in Procs |-> "idle"]
    /\ req = [p \in Procs |-> NoReq]
    /\ alreadyDisliked = [p \in Procs |-> FALSE]
    /\ howManyDislikedTuit = [p \in Procs |-> 0]
    /\ tuit = [p \in Procs |-> NoTuit]
    /\ res = [p \in Procs |-> NoRes]
    /\ log = [p \in Procs |-> <<>>]
    /\ clean = [p \in Procs |-> FALSE]
    /\ pre = [p \in Procs |-> NoPre]
    /\ chain = [p \in Procs |-> NoChain]
    /\ racedWith = [p \in Procs |-> {}]
    /\ attempt = [p \in Procs |-> NoChain]
    /\ issued = 0
    /\ rejected = 0

(* ---------------- history bookkeeping ---------------- *)
\* a toggle starts: it is clean if no other toggle is in flight, it remembers
\* the state it starts from, and it continues a chain if the last thing that
\* happened was a clean successful toggle of the same pair; it is a repeated
\* attempt if the last thing that happened was a clean toggle of the same pair
\* that answered 404
StartHistory(p, r) ==
    LET alone == \A q \in Procs \ {p} : ~InFlightToggle(q)
        uid == UserId(r)
        mine == [present |-> uid \in Users /\ findUserDislikesTuit(dislikes, uid, r.tid),
                 count |-> countHowManyDislikedTuit(dislikes, r.tid),
                 drifted |-> /\ r.tid \in ExistingTuits
                             /\ tuits[r.tid].dislikes #
                                    countHowManyDislikedTuit(dislikes, r.tid)]
        prev == {q \in Procs : /\ pc[q] = "done" /\ req[q].op = "toggle"
                               /\ clean[q] /\ res[q].status = OK
                               /\ UserId(req[q]) = uid /\ req[q].tid = r.tid}
        failed == {q \in Procs : /\ pc[q] = "done" /\ req[q].op = "toggle"
                                 /\ clean[q] /\ res[q].status = NOT_FOUND
                                 /\ UserId(req[q]) = uid /\ req[q].tid = r.tid}
    IN /\ clean' = [q \in Procs |-> q = p /\ alone]
       /\ pre' = [q \in Procs |-> IF q = p /\ alone THEN mine ELSE NoPre]
       /\ chain' = [q \in Procs |->
                      IF q = p /\ alone /\ prev # {}
                      THEN LET x == CHOOSE x \in prev : TRUE
                           IN [valid |-> TRUE, present |-> pre[x].present,
                               count |-> pre[x].count]
                      ELSE NoChain]
       /\ attempt' = [q \in Procs |->
                      IF q = p /\ alone /\ failed # {}
                      THEN LET x == CHOOSE x \in failed : TRUE
                           IN IF attempt[x].valid THEN attempt[x]
                              ELSE [valid |-> TRUE, present |-> pre[x].present,
                                    count |-> pre[x].count]
                      ELSE NoChain]
       /\ racedWith' = [q \in Procs |-> IF q = p THEN {} ELSE racedWith[q] \ {p}]

\* toggles of the same pair that have read the same presence as p and have not
\* yet written their edge change, at the moment p writes its own
Racing(p) ==
    {q \in Procs \ {p} :
        /\ req[q].op = "toggle"
        /\ pc[q] \in {"countHowManyDislikedTuit", "findTuitById", "edgeChange"}
        /\ UserId(req[q]) = UserId(req[p]) /\ req[q].tid = req[p].tid
        /\ alreadyDisliked[q] = alreadyDisliked[p]}

(* ---------------- userTogglesTuitDislikes ---------------- *)
\* the handler goes on to its next store call
Goto(p, next) ==
    /\ pc' = [pc EXCEPT ![p] = next]
    /\ UNCHANGED res

\* a request arrives: req.params and req.session
Arrives(p, r, limit) ==
    /\ Free(p) /\ issued < limit
    /\ req' = [req EXCEPT ![p] = r]
    /\ issued' = issued + 1
    /\ log' = [log EXCEPT ![p] = <<>>]
    /\ UNCHANGED <<dislikes, tuits, rejected>>

\* the first store call of a handler, unless the session check answers 403
Enter(p, r, first) ==
    IF Unauthenticated(r)
    THEN Respond(p, FORBIDDEN, EmptyBag)
    ELSE /\ pc' = [pc EXCEPT ![p] = first]
         /\ res' = [res EXCEPT ![p] = NoRes]
         /\ UNCHANGED locals

\* lines 95-109: the parameters, the session check, the resolved user id
userTogglesTuitDislikes(p, limit) ==
    \E c \in Callers, tid \in Tids :
        LET r == [op |-> "toggle", uid |-> c[1], tid |-> tid, profile |-> c[2]]
        IN /\ Arrives(p, r, limit)
           /\ Enter(p, r, "findUserDislikesTuit")
           /\ StartHistory(p, r)

ToggleRequest(p) == userTogglesTuitDislikes(p, MaxIssued)

\* a catch block that swallows the error and makes the call again
CatchRetry(p) ==
    /\ pc' = pc
    /\ UNCHANGED <<res, locals>>

\* a catch block that would swallow the failure and answer 200
CatchSendsOk(p) == Respond(p, OK, EmptyBag)

\* the catch block: res.sendStatus(404)
Catch(p) == Respond(p, NOT_FOUND, EmptyBag)

\* line 110
ToggleFindUserDislikesTuit(p) ==
    /\ pc[p] = "findUserDislikesTuit"
    /\ \E ok \in Outcomes(CastError(UserId(req[p]))) :
        /\ Logged(p, "findUserDislikesTuit", ok, CastError(UserId(req[p])))
        /\ IF ok
           THEN /\ alreadyDisliked' = [alreadyDisliked EXCEPT ![p] =
                        findUserDislikesTuit(dislikes, UserId(req[p]), req[p].tid)]
                /\ Goto(p, "countHowManyDislikedTuit")
                /\ UNCHANGED <<howManyDislikedTuit, tuit>>
           ELSE Catch(p)
    /\ UNCHANGED <<dislikes, tuits, req, history, issued>>

\* line 111
ToggleCountHowManyDislikedTuit(p) ==
    /\ pc[p] = "countHowManyDislikedTuit"
    /\ \E ok \in Outcomes(FALSE) :
        /\ Logged(p, "countHowManyDislikedTuit", ok, FALSE)
        /\ IF ok
           THEN /\ howManyDislikedTuit' = [howManyDislikedTuit EXCEPT ![p] =
                        countHowManyDislikedTuit(dislikes, req[p].tid)]
                /\ Goto(p, "findTuitById")
                /\ UNCHANGED <<alreadyDisliked, tuit>>
           ELSE Catch(p)
    /\ UNCHANGED <<dislikes, tuits, req, history, issued>>

\* line 112
ToggleFindTuitById(p) ==
    /\ pc[p] = "findTuitById"
    /\ \E ok \in Outcomes(FALSE) :
        /\ Logged(p, "findTuitById", ok, FALSE)
        /\ IF ok
           THEN /\ tuit' = [tuit EXCEPT ![p] = findTuitById(tuits, req[p].tid)]
                /\ Goto(p, "edgeChange")
                /\ UNCHANGED <<alreadyDisliked, howManyDislikedTuit>>
           ELSE Catch(p)
    /\ UNCHANGED <<dislikes, tuits, req, history, issued>>

\* lines 113-119: the edge is removed or inserted, then the new counter is
\* stored in the local tuit; tuit.stats of a null tuit throws
ToggleEdgeChange(p) ==
    /\ pc[p] = "edgeChange"
    /\ LET uid == UserId(req[p])
           tid == req[p].tid
           call == IF alreadyDisliked[p] THEN "userUnDislikesTuit" ELSE "userDislikesTuit"
           duplicate == ~alreadyDisliked[p] /\ DuplicateKey(dislikes, uid, tid)
       IN \E ok \in Outcomes(duplicate) :
            /\ Logged(p, call, ok, duplicate)
            /\ IF ok
               THEN /\ dislikes' = IF alreadyDisliked[p]
                                   THEN userUnDislikesTuit(dislikes, uid, tid)
                                   ELSE userDislikesTuit(dislikes, uid, tid)
                    /\ racedWith' = [q \in Procs |->
                          IF q = p THEN racedWith[p] \cup Racing(p)
                          ELSE IF q \in Racing(p) THEN racedWith[q] \cup {p}
                          ELSE racedWith[q]]
                    /\ IF tuit[p].found
                       THEN /\ tuit' = [tuit EXCEPT ![p].stats.dislikes =
                                  NewDislikes(alreadyDisliked[p], howManyDislikedTuit[p])]
                            /\ Goto(p, "updateDislikes")
                            /\ UNCHANGED <<alreadyDisliked, howManyDislikedTuit>>
                       ELSE Catch(p)
               ELSE /\ Catch(p)
                    /\ UNCHANGED <<dislikes, racedWith>>
    /\ UNCHANGED <<tuits, req, clean, pre, chain, attempt, issued>>

\* lines 120-121
ToggleUpdateDislikes(p) ==
    /\ pc[p] = "updateDislikes"
    /\ \E ok \in Outcomes(FALSE) :
        /\ Logged(p, "updateDislikes", ok, FALSE)
        /\ IF ok
           THEN /\ tuits' = updateDislikes(tuits, req[p].tid, tuit[p].stats)
                /\ Respond(p, OK, EmptyBag)
           ELSE /\ Catch(p)
                /\ UNCHANGED tuits
    /\ UNCHANGED <<dislikes, req, history, issued>>

(* ---------------- the read handlers ---------------- *)
\* a read keeps no history of its own
ReadHistory(p) ==
    /\ clean' = [clean EXCEPT ![p] = FALSE]
    /\ pre' = [pre EXCEPT ![p] = NoPre]
    /\ chain' = [chain EXCEPT ![p] = NoChain]
    /\ attempt' = [attempt EXCEPT ![p] = NoChain]
    /\ racedWith' = [q \in Procs |-> IF q = p THEN {} ELSE racedWith[q] \ {p}]

\* lines 127-138
StatusRequest(p) ==
    \E c \in Callers, tid \in Tids :
        LET r == [op |-> "status", uid |-> c[1], tid |-> tid, profile |-> c[2]]
        IN /\ Arrives(p, r, MaxIssued)
           /\ Enter(p, r, "statusFind")
           /\ ReadHistory(p)

\* a rejected promise without a catch: the handler ends and sends nothing
Unhandled(p) == Respond(p, NO_RESPONSE, EmptyBag)

\* lines 139-140: res.json(dislike), the document found or null
StatusFind(p) ==
    /\ pc[p] = "statusFind"
    /\ LET uid == UserId(req[p])
           tid == req[p].tid
       IN \E ok \in Outcomes(CastError(uid)) :
            /\ Logged(p, "findUserDislikesTuit", ok, CastError(uid))
            /\ IF ok
               THEN Respond(p, OK,
                        [k \in EdgeKeys |->
                           IF k = <<tid, uid>> /\ findUserDislikesTuit(dislikes, uid, tid)
                           THEN 1 ELSE 0])
               ELSE Unhandled(p)
    /\ UNCHANGED <<dislikes, tuits, req, history, issued>>

\* lines 56-57: no session check, the tid is the only parameter
UsersOfTuitRequest(p) ==
    \E tid \in Tids :
        LET r == [op |-> "usersOfTuit", uid |-> "A", tid |-> tid, profile |-> NoProfile]
        IN /\ Arrives(p, r, MaxIssued)
           /\ pc' = [pc EXCEPT ![p] = "usersOfTuitFind"]
           /\ res' = [res EXCEPT ![p] = NoRes]
           /\ UNCHANGED locals
           /\ ReadHistory(p)

\* lines 57-58
UsersOfTuitFind(p) ==
    /\ pc[p] = "usersOfTuitFind"
    /\ \E ok \in Outcomes(FALSE) :
        /\ Logged(p, "findAllUsersThatDislikedTuit", ok, FALSE)
        /\ IF ok
           THEN Respond(p, OK, findAllUsersThatDislikedTuit(dislikes, req[p].tid))
           ELSE Unhandled(p)
    /\ UNCHANGED <<dislikes, tuits, req, history, issued>>

\* lines 67-76
TuitsOfUserRequest(p) ==
    \E c \in Callers :
        LET r == [op |-> "tuitsOfUser", uid |-> c[1], tid |-> MissingTid, profile |-> c[2]]
        IN /\ Arrives(p, r, MaxIssued)
           /\ Enter(p, r, "tuitsOfUserFind")
           /\ ReadHistory(p)

\* a listing that would also delete the dislikes whose tuit is gone
TuitsOfUserFindPruning(p) ==
    /\ pc[p] = "tuitsOfUserFind"
    /\ \E ok \in Outcomes(CastError(UserId(req[p]))) :
        /\ Logged(p, "findAllTuitsDislikedByUser", ok, CastError(UserId(req[p])))
        /\ IF ok
           THEN /\ Respond(p, OK,
                    NonNullTuits(findAllTuitsDislikedByUser(dislikes, UserId(req[p]))))
                /\ dislikes' = [k \in EdgeKeys |->
                                  IF k[2] = UserId(req[p]) /\ k[1] \notin ExistingTuits
                                  THEN 0 ELSE dislikes[k]]
           ELSE Unhandled(p) /\ UNCHANGED dislikes
    /\ UNCHANGED <<tuits, req, history, issued>>

\* lines 78-83
TuitsOfUserFind(p) ==
    /\ pc[p] = "tuitsOfUserFind"
    /\ \E ok \in Outcomes(CastError(UserId(req[p]))) :
        /\ Logged(p, "findAllTuitsDislikedByUser", ok, CastError(UserId(req[p])))
        /\ IF ok
           THEN Respond(p, OK,
                    NonNullTuits(findAllTuitsDislikedByUser(dislikes, UserId(req[p]))))
           ELSE Unhandled(p)
    /\ UNCHANGED <<dislikes, tuits, req, history, issued>>

Next ==
    \E p \in Procs :
        \/ ToggleRequest(p)
        \/ ToggleFindUserDislikesTuit(p)
        \/ ToggleCountHowManyDislikedTuit(p)
        \/ ToggleFindTuitById(p)
        \/ ToggleEdgeChange(p)
        \/ ToggleUpdateDislikes(p)
        \/ StatusRequest(p)
        \/ StatusFind(p)
        \/ UsersOfTuitRequest(p)
        \/ UsersOfTuitFind(p)
        \/ TuitsOfUserRequest(p)
        \/ TuitsOfUserFind(p)

Spec == Init /\ [][Next]_vars

(* ---------------- a workload of toggles alone ---------------- *)
ToggleArrives(p) == userTogglesTuitDislikes(p, MaxToggles)

NextToggles ==
    \E p \in Procs :
        \/ ToggleArrives(p)
        \/ ToggleFindUserDislikesTuit(p)
        \/ ToggleCountHowManyDislikedTuit(p)
        \/ ToggleFindTuitById(p)
        \/ ToggleEdgeChange(p)
        \/ ToggleUpdateDislikes(p)

SpecToggles == Init /\ [][NextToggles]_vars

(* ======================================================================= *)
(*                              Properties                                 *)
(* ======================================================================= *)
DoneToggle(p) == pc[p] = "done" /\ req[p].op = "toggle"

\* a toggle that ran from its first line to its response with no other toggle
\* in flight, answered 200, and nothing has touched the store since
CleanSuccess(p) == DoneToggle(p) /\ clean[p] /\ res[p].status = OK

\* C1. Uniqueness: the dislikes collection holds at most one document for
\* any (tuit, dislikedBy) pair, in every reachable state.
Uniqueness == \A k \in EdgeKeys : dislikes[k] <= 1

\* C2. Counter correctness at rest: after a toggle that ran without
\* interleaving and answered 200, stats.dislikes of the tuit equals the number
\* of dislikes documents of the tuit, whatever the counter was before.
CounterCorrectAtRest ==
    \A p \in Procs :
        (CleanSuccess(p) /\ req[p].tid \in ExistingTuits) =>
            tuits[req[p].tid].dislikes = countHowManyDislikedTuit(dislikes, req[p].tid)

\* a clean successful toggle has healed a counter that had drifted
CounterHealed ==
    \E p \in Procs :
        /\ CleanSuccess(p) /\ pre[p].drifted
        /\ tuits[req[p].tid].dislikes = countHowManyDislikedTuit(dislikes, req[p].tid)

\* C3. Idempotence of double-toggle: two successive successful toggles of the
\* same (user, tuit) pair of an existing tuit, with no other toggle
\* interleaved, leave the edge as present or absent as it was before the first
\* and the number of dislikes documents of the tuit as it was.
DoubleToggleRestores ==
    \A p \in Procs :
        (CleanSuccess(p) /\ chain[p].valid /\ req[p].tid \in ExistingTuits) =>
            /\ findUserDislikesTuit(dislikes, UserId(req[p]), req[p].tid) = chain[p].present
            /\ countHowManyDislikedTuit(dislikes, req[p].tid) = chain[p].count

\* C4. The counter a toggle writes is never negative: neither the value handed
\* to updateDislikes nor the stats.dislikes stored.
CounterNeverNegative ==
    /\ \A t \in ExistingTuits : tuits[t].dislikes >= 0
    /\ \A p \in Procs : pc[p] = "updateDislikes" => tuit[p].stats.dislikes >= 0

\* C5. Of two toggles of the same pair that read the same edge presence before
\* either wrote its edge change, the later writer's create or delete fails and
\* that toggle reports failure: at most one of the two answers 200.
RacingToggleFails ==
    \A p \in Procs : \A q \in racedWith[p] :
        (DoneToggle(p) /\ DoneToggle(q)) =>
            ~(res[p].status = OK /\ res[q].status = OK)

\* the session holds no identity and the path names "me"
SelfWithoutIdentity(p) ==
    /\ pc[p] # "idle"
    /\ req[p].op \in {"toggle", "status", "tuitsOfUser"}
    /\ req[p].uid = ME /\ req[p].profile = NoProfile

\* C6. Unauthenticated alias: a toggle, a status check or a list of the tuits
\* a user dislikes, asked for "me" with no profile in the session, answers 403
\* (neither 200 nor 404) and makes no call to the dislikes or the tuits store.
UnauthenticatedAlias ==
    \A p \in Procs :
        SelfWithoutIdentity(p) =>
            /\ pc[p] = "done"
            /\ res[p].status = FORBIDDEN
            /\ res[p].status \notin {OK, NOT_FOUND}
            /\ log[p] = <<>>

\* a toggle and a read, both for "me" without a session, both answered
UnauthenticatedSeen ==
    \E p, q \in Procs :
        /\ SelfWithoutIdentity(p) /\ req[p].op = "toggle" /\ pc[p] = "done"
        /\ SelfWithoutIdentity(q) /\ req[q].op # "toggle" /\ pc[q] = "done"

\* the calls of the log that write: to the dislikes collection, to a tuit
Writes(l) ==
    {i \in 1..Len(l) :
        l[i].ok /\ l[i].call \in {"userDislikesTuit", "userUnDislikesTuit", "updateDislikes"}}

\* C7. Toggle on a missing tuit: it answers 404, inserts no edge, removes no
\* edge and does not call updateDislikes; edges and counters are as before.
MissingTuitToggleWritesNothing ==
    \A p \in Procs :
        (DoneToggle(p) /\ req[p].tid \notin ExistingTuits /\ ~SelfWithoutIdentity(p)) =>
            /\ res[p].status = NOT_FOUND
            /\ Writes(log[p]) = {}
            /\ clean[p] =>
                 findUserDislikesTuit(dislikes, UserId(req[p]), req[p].tid) = pre[p].present

\* C8. Abort on failure, no retries: once a store call of a toggle is
\* rejected, the toggle makes no further call, makes no call twice, and
\* answers 404, never 200.
AbortOnFailure ==
    \A p \in Procs :
        (pc[p] # "idle" /\ req[p].op = "toggle") =>
            LET l == log[p]
            IN /\ \A i \in 1..Len(l) :
                    ~l[i].ok => /\ i = Len(l)
                                /\ pc[p] = "done"
                                /\ res[p].status = NOT_FOUND
               /\ \A i, j \in 1..Len(l) : i < j => l[i].call # l[j].call

\* a toggle whose count was rejected after its lookup had succeeded
AbortedMidway ==
    \E p \in Procs :
        /\ DoneToggle(p) /\ Len(log[p]) = 2
        /\ log[p][1].ok /\ ~log[p][2].ok
        /\ res[p].status = NOT_FOUND

\* the only two requests ever issued are toggles of one existing tuit by two
\* different users, both answered, and the store rejected no call
TwoActors(p, q) ==
    /\ p # q /\ issued = 2 /\ rejected = 0
    /\ DoneToggle(p) /\ DoneToggle(q)
    /\ ~SelfWithoutIdentity(p) /\ ~SelfWithoutIdentity(q)
    /\ req[p].tid = req[q].tid /\ req[p].tid \in ExistingTuits
    /\ UserId(req[p]) # UserId(req[q])

\* C9. Concurrent toggles by different users do not conflict on edges: from
\* an empty collection, under every interleaving, both answer 200 and both
\* edges exist once both have completed.
DifferentActorsDoNotConflict ==
    \A p, q \in Procs :
        TwoActors(p, q) =>
            /\ res[p].status = OK /\ res[q].status = OK
            /\ dislikes[<<req[p].tid, UserId(req[p])>>] = 1
            /\ dislikes[<<req[q].tid, UserId(req[q])>>] = 1

\* the two toggles were in flight together and both have answered 200
TwoActorsInterleaved ==
    \E p, q \in Procs :
        /\ TwoActors(p, q) /\ ~clean[p] /\ ~clean[q]
        /\ res[p].status = OK /\ res[q].status = OK

\* C10. Two-actor scenario: from no edges and counter 0, after the toggles of
\* A and B on T have both completed, whatever their interleaving, the counter
\* of T is 2 and the dislikers of T are exactly A and B.
TwoActorScenario ==
    \A p, q \in Procs :
        TwoActors(p, q) =>
            /\ tuits[req[p].tid].dislikes = 2
            /\ findAllUsersThatDislikedTuit(dislikes, req[p].tid) =
                 [k \in EdgeKeys |-> IF k[1] = req[p].tid THEN 1 ELSE 0]

\* C11. Failed toggles are safe to retry: when a toggle that answered 404 is
\* repeated, with no other toggle interleaved, until an attempt answers 200,
\* the edge of the pair has been flipped exactly once from what it was before
\* the first attempt, and the counter of the tuit equals its edge count.
RetryFlipsOnce ==
    \A p \in Procs :
        (CleanSuccess(p) /\ attempt[p].valid /\ req[p].tid \in ExistingTuits) =>
            /\ findUserDislikesTuit(dislikes, UserId(req[p]), req[p].tid) = ~attempt[p].present
            /\ tuits[req[p].tid].dislikes = countHowManyDislikedTuit(dislikes, req[p].tid)

\* C12. Every boundary operation produces exactly one result: a request whose
\* store calls have all completed or failed has been answered with a success
\* or a failure status; none is left without a response, in particular when a
\* store call fails.
EveryRequestAnswered ==
    \A p \in Procs :
        pc[p] = "done" => res[p].status \in {OK, FORBIDDEN, NOT_FOUND}

\* a step of request p: it arrives in slot p, or its handler moves on
StepOf(p) ==
    \/ issued' # issued /\ Free(p)
    \/ pc'[p] # pc[p]
    \/ log'[p] # log[p]

\* C13. The read operations are pure reads: no step of a status check or of a
\* listing changes the dislikes collection or the stats of any tuit.
ReadsArePure ==
    [][\A p \in Procs :
          (StepOf(p) /\ req'[p].op # "toggle") =>
              dislikes' = dislikes /\ tuits' = tuits]_vars

\* a listing has answered with a tuit while the collection holds dislikes
\* and a counter is set
ReadAnsweredOverDislikes ==
    \E p \in Procs :
        /\ pc[p] = "done" /\ req[p].op = "tuitsOfUser" /\ res[p].status = OK
        /\ res[p].body # EmptyBag
        /\ \E k \in EdgeKeys : k[1] \notin ExistingTuits /\ dislikes[k] > 0
        /\ \E t \in ExistingTuits : tuits[t].dislikes > 0

\* C14. userUnDislikesTuit for a pair that has no edge reports a failure and
\* not a success, and leaves the dislikes collection unchanged (stated for
\* the pairs of an existing tuit).
UnDislikeOfMissingEdgeFails ==
    [][\A p \in Procs :
          ( /\ pc[p] = "edgeChange" /\ alreadyDisliked[p]
            /\ req[p].tid \in ExistingTuits
            /\ ~findUserDislikesTuit(dislikes, UserId(req[p]), req[p].tid)
            /\ log'[p] # log[p] ) =>
              /\ log'[p][Len(log'[p])] = [call |-> "userUnDislikesTuit", ok |-> FALSE]
              /\ dislikes' = dislikes]_vars

\* C15. The status check answers with the dislike of the pair if and only if
\* the collection holds one at the time of the read, and with null otherwise.
StatusReflectsStore ==
    [][\A p \in Procs :
          ( /\ pc[p] = "statusFind" /\ pc'[p] = "done"
            /\ res'[p].status = OK ) =>
              LET pair == <<req[p].tid, UserId(req[p])>>
              IN /\ res'[p].body[pair] = (IF dislikes[pair] > 0 THEN 1 ELSE 0)
                 /\ \A k \in EdgeKeys \ {pair} : res'[p].body[k] = 0]_vars

\* a status check has answered with the dislike that its pair has in the
\* collection
StatusAnsweredPresent ==
    \E p \in Procs :
        /\ pc[p] = "done" /\ req[p].op = "status" /\ res[p].status = OK
        /\ res[p].body[<<req[p].tid, UserId(req[p])>>] = 1
        /\ dislikes[<<req[p].tid, UserId(req[p])>>] = 1

\* C16. The listing of the tuits a user dislikes answers with the tuit of
\* each of that user's dislikes whose tuit exists, once per dislike, and with
\* nothing else; a dislike whose tuit is gone is left out and the listing
\* still answers 200.
ListingIsResolvedEdges ==
    [][\A p \in Procs :
          ( /\ pc[p] = "tuitsOfUserFind" /\ pc'[p] = "done"
            /\ log'[p][Len(log'[p])].ok ) =>
              /\ res'[p].status = OK
              /\ \A k \in EdgeKeys :
                    res'[p].body[k] =
                        IF k[2] = UserId(req[p]) /\ k[1] \in ExistingTuits
                        THEN dislikes[k] ELSE 0]_vars

\* a listing has answered with the one tuit that exists while its user also
\* dislikes a tuit that does not
ListingOmitsDangling ==
    \E p \in Procs :
        /\ pc[p] = "done" /\ req[p].op = "tuitsOfUser" /\ res[p].status = OK
        /\ \E t \in ExistingTuits : res[p].body[<<t, UserId(req[p])>>] = 1
        /\ dislikes[<<MissingTid, UserId(req[p])>>] > 0
        /\ res[p].body[<<MissingTid, UserId(req[p])>>] = 0

\* the calls of a toggle that ran to its end, all resolved, in their order
CompleteToggle(change) ==
    << [call |-> "findUserDislikesTuit", ok |-> TRUE],
       [call |-> "countHowManyDislikedTuit", ok |-> TRUE],
       [call |-> "findTuitById", ok |-> TRUE],
       [call |-> change, ok |-> TRUE],
       [call |-> "updateDislikes", ok |-> TRUE] >>

\* C17. Success implies a complete toggle: a toggle that answers 200 has made
\* the lookup, the count and the tuit read, then exactly one edge change, then
\* exactly one updateDislikes, every call resolved; the edge change is a
\* create when the lookup found nothing and a delete when it found a dislike;
\* no toggle answers 200 after an edge change without the updateDislikes.
SuccessIsCompleteToggle ==
    \A p \in Procs :
        /\ (DoneToggle(p) /\ res[p].status = OK) =>
              \E change \in {"userDislikesTuit", "userUnDislikesTuit"} :
                  log[p] = CompleteToggle(change)
        /\ (req[p].op = "toggle" /\ pc[p] = "updateDislikes") =>
              /\ Len(log[p]) = 4
              /\ log[p][4] = [call |-> IF alreadyDisliked[p]
                                        THEN "userUnDislikesTuit"
                                        ELSE "userDislikesTuit",
                              ok |-> TRUE]

\* a toggle that found a dislike, deleted it and wrote the counter has
\* answered 200
UnDislikeToggleSucceeded ==
    \E p \in Procs :
        /\ DoneToggle(p) /\ res[p].status = OK
        /\ log[p] = CompleteToggle("userUnDislikesTuit")

====
